---- MODULE Spec2Model ----
(***************************************************************************)
(* Model of the wikitext template expansion of src/bin/define.rs:          *)
(* parse_place (the place-name parser), replace_template (the template     *)
(* dispatcher) and the expansion loop of the formatting closure in main.   *)
(*                                                                         *)
(* A Rust string is a sequence of characters, each character a one-letter  *)
(* TLA+ string.  The only non-ASCII character of the program's literals,   *)
(* U+014D, is the single sequence element "o-macron".                      *)
(***************************************************************************)
EXTENDS Naturals, Sequences, FiniteSets

VARIABLES
    raw,          \* matches.opt_present("r")
    s,            \* the closure's argument: the definition text being formatted
    result,       \* the closure's working string
    pc,           \* position of the closure: "loop", "done", "panic" ("idle": not in use)
    passes,       \* replace_all passes performed by the current call
    changes,      \* passes of the current call whose output differed from their input
    calls,        \* calls of the closure so far
    elems,        \* argument of the parse_place call under study
    place,        \* what that call returned
    depth,        \* deepest nested parse_place call that call made
    ppc           \* position of that call: "call", "ret" ("idle": not in use)

vars == <<raw, s, result, pc, passes, changes, calls, elems, place, depth, ppc>>

\* ------------------------------------------------------------------------
\* Bounds of the model
\* ------------------------------------------------------------------------
\* arguments after the template name in a generated invocation
MaxArgs == 3
\* nesting depth of a generated template chain
MaxDepth == 3
\* calls of the formatting closure in one behaviour
MaxCalls == 2
\* tokens in a generated parse_place argument
MaxTokens == 2
\* nested parse_place calls after which the model stops descending
MaxRecursion == 3
\* passes after which the model stops stepping the loop
MaxPasses == 8

\* ------------------------------------------------------------------------
\* str methods
\* ------------------------------------------------------------------------
\* str::starts_with
StartsWith(str, pat) ==
    /\ Len(str) >= Len(pat)
    /\ SubSeq(str, 1, Len(pat)) = pat

\* pat occurs in str at index i
MatchAt(str, pat, i) ==
    /\ i + Len(pat) - 1 <= Len(str)
    /\ SubSeq(str, i, i + Len(pat) - 1) = pat

\* str::replace: every non-overlapping occurrence of pat, left to right
RECURSIVE ReplaceFrom(_, _, _, _)
ReplaceFrom(str, pat, rep, i) ==
    IF i > Len(str) THEN <<>>
    ELSE IF MatchAt(str, pat, i)
         THEN rep \o ReplaceFrom(str, pat, rep, i + Len(pat))
         ELSE <<str[i]>> \o ReplaceFrom(str, pat, rep, i + 1)

Replace(str, pat, rep) ==
    ReplaceFrom(str, pat, rep, 1)

\* str::split on a one-character pattern: k separators give k + 1 pieces
RECURSIVE SplitFrom(_, _, _, _)
SplitFrom(str, sep, i, cur) ==
    IF i > Len(str) THEN <<cur>>
    ELSE IF str[i] = sep
         THEN <<cur>> \o SplitFrom(str, sep, i + 1, <<>>)
         ELSE SplitFrom(str, sep, i + 1, Append(cur, str[i]))

Split(str, sep) ==
    SplitFrom(str, sep, 1, <<>>)

\* [&str]::join
RECURSIVE Join(_, _)
Join(strs, sep) ==
    IF Len(strs) = 0 THEN <<>>
    ELSE IF Len(strs) = 1 THEN strs[1]
    ELSE strs[1] \o sep \o Join(Tail(strs), sep)

\* the white space of the model's alphabet
IsWhitespace(c) ==
    c = " "

\* str::trim_end
RECURSIVE TrimEnd(_)
TrimEnd(str) ==
    IF Len(str) > 0 /\ IsWhitespace(str[Len(str)])
    THEN TrimEnd(SubSeq(str, 1, Len(str) - 1))
    ELSE str

\* u8::make_ascii_uppercase on one character
AsciiUpper(c) ==
    CASE c = "a" -> "A" [] c = "b" -> "B" [] c = "c" -> "C" [] c = "d" -> "D"
      [] c = "e" -> "E" [] c = "f" -> "F" [] c = "g" -> "G" [] c = "h" -> "H"
      [] c = "i" -> "I" [] c = "j" -> "J" [] c = "k" -> "K" [] c = "l" -> "L"
      [] c = "m" -> "M" [] c = "n" -> "N" [] c = "o" -> "O" [] c = "p" -> "P"
      [] c = "q" -> "Q" [] c = "r" -> "R" [] c = "s" -> "S" [] c = "t" -> "T"
      [] c = "u" -> "U" [] c = "v" -> "V" [] c = "w" -> "W" [] c = "x" -> "X"
      [] c = "y" -> "Y" [] c = "z" -> "Z"
      [] OTHER -> c

\* the characters that take more than one byte in UTF-8
NonAscii ==
    {"o-macron"}

\* make_ascii_titlecase: s.get_mut(0..1) is None for the empty string and for a
\* string whose first character is longer than one byte
make_ascii_titlecase(str) ==
    IF Len(str) = 0 \/ str[1] \in NonAscii THEN str
    ELSE <<AsciiUpper(str[1])>> \o Tail(str)

\* ---- parse_place literals
\* "ucomm"
kw_ucomm ==
    <<"u", "c", "o", "m", "m">>
\* "CDP"
kw_CDP ==
    <<"C", "D", "P">>
\* "cdp"
kw_cdp ==
    <<"c", "d", "p">>
\* "minor city"
kw_minor_city ==
    <<"m", "i", "n", "o", "r", " ", "c", "i", "t", "y">>
\* "electoral division"
kw_electoral_division ==
    <<"e", "l", "e", "c", "t", "o", "r", "a", "l", " ", "d", "i", "v", "i", "s", "i", "o", "n">>
\* "and"
kw_and ==
    <<"a", "n", "d">>
\* "seat="
pre_seat ==
    <<"s", "e", "a", "t", "=">>
\* "One of"
pre_One_of ==
    <<"O", "n", "e", " ", "o", "f">>
\* "in "
pre_in ==
    <<"i", "n", " ">>
\* "c/"
pre_c ==
    <<"c", "/">>
\* "cc/"
pre_cc ==
    <<"c", "c", "/">>
\* "s/"
pre_s ==
    <<"s", "/">>
\* "co/"
pre_co ==
    <<"c", "o", "/">>
\* "state/"
pre_state ==
    <<"s", "t", "a", "t", "e", "/">>
\* "city/"
pre_city ==
    <<"c", "i", "t", "y", "/">>
\* "town/"
pre_town ==
    <<"t", "o", "w", "n", "/">>
\* "prefecture:"
pre_prefecture ==
    <<"p", "r", "e", "f", "e", "c", "t", "u", "r", "e", ":">>
\* "ar:"
pre_ar ==
    <<"a", "r", ":">>
\* "Suf/"
pre_Suf ==
    <<"S", "u", "f", "/">>
\* "t="
pre_t ==
    <<"t", "=">>
\* "(Unincorporated Community) "
txt_Unincorporated_Community ==
    <<"(", "U", "n", "i", "n", "c", "o", "r", "p", "o", "r", "a", "t", "e", "d", " ", "C", "o", "m", "m", "u", "n", "i", "t", "y", ")", " ">>
\* "(Census-Designated Place) "
txt_Census_Designated_Place ==
    <<"(", "C", "e", "n", "s", "u", "s", "-", "D", "e", "s", "i", "g", "n", "a", "t", "e", "d", " ", "P", "l", "a", "c", "e", ")", " ">>
\* "(Minor City) "
txt_Minor_City ==
    <<"(", "M", "i", "n", "o", "r", " ", "C", "i", "t", "y", ")", " ">>
\* "(Electoral Division) "
txt_Electoral_Division ==
    <<"(", "E", "l", "e", "c", "t", "o", "r", "a", "l", " ", "D", "i", "v", "i", "s", "i", "o", "n", ")", " ">>
\* " (Seat "
txt_Seat ==
    <<" ", "(", "S", "e", "a", "t", " ">>
\* " prefecture, "
txt_prefecture ==
    <<" ", "p", "r", "e", "f", "e", "c", "t", "u", "r", "e", ",", " ">>
\* " Autonomous Region, "
txt_Autonomous_Region ==
    <<" ", "A", "u", "t", "o", "n", "o", "m", "o", "u", "s", " ", "R", "e", "g", "i", "o", "n", ",", " ">>

\* ---- template names
\* ","
name_comma ==
    <<",">>
\* "1"
name_1 ==
    <<"1">>
\* "cap"
name_cap ==
    <<"c", "a", "p">>
\* "ngd"
name_ngd ==
    <<"n", "g", "d">>
\* "unsupported"
name_unsupported ==
    <<"u", "n", "s", "u", "p", "p", "o", "r", "t", "e", "d">>
\* "non-gloss definition"
name_non_gloss_definition ==
    <<"n", "o", "n", "-", "g", "l", "o", "s", "s", " ", "d", "e", "f", "i", "n", "i", "t", "i", "o", "n">>
\* "gloss"
name_gloss ==
    <<"g", "l", "o", "s", "s">>
\* "alternative form of"
name_alternative_form_of ==
    <<"a", "l", "t", "e", "r", "n", "a", "t", "i", "v", "e", " ", "f", "o", "r", "m", " ", "o", "f">>
\* "alt form"
name_alt_form ==
    <<"a", "l", "t", " ", "f", "o", "r", "m">>
\* "ja-romanization of"
name_ja_romanization_of ==
    <<"j", "a", "-", "r", "o", "m", "a", "n", "i", "z", "a", "t", "i", "o", "n", " ", "o", "f">>
\* "sumti"
name_sumti ==
    <<"s", "u", "m", "t", "i">>
\* "ja-def"
name_ja_def ==
    <<"j", "a", "-", "d", "e", "f">>
\* "qualifier"
name_qualifier ==
    <<"q", "u", "a", "l", "i", "f", "i", "e", "r">>
\* "lb"
name_lb ==
    <<"l", "b">>
\* "q"
name_q ==
    <<"q">>
\* "c"
name_c ==
    <<"c">>
\* "m"
name_m ==
    <<"m">>
\* "l"
name_l ==
    <<"l">>
\* "w"
name_w ==
    <<"w">>
\* "senseid"
name_senseid ==
    <<"s", "e", "n", "s", "e", "i", "d">>
\* "alternative case form of"
name_alternative_case_form_of ==
    <<"a", "l", "t", "e", "r", "n", "a", "t", "i", "v", "e", " ", "c", "a", "s", "e", " ", "f", "o", "r", "m", " ", "o", "f">>
\* "plural of"
name_plural_of ==
    <<"p", "l", "u", "r", "a", "l", " ", "o", "f">>
\* "infl of"
name_infl_of ==
    <<"i", "n", "f", "l", " ", "o", "f">>
\* "syn of"
name_syn_of ==
    <<"s", "y", "n", " ", "o", "f">>
\* "synonym of"
name_synonym_of ==
    <<"s", "y", "n", "o", "n", "y", "m", " ", "o", "f">>
\* "acronym of"
name_acronym_of ==
    <<"a", "c", "r", "o", "n", "y", "m", " ", "o", "f">>
\* "initialism of"
name_initialism_of ==
    <<"i", "n", "i", "t", "i", "a", "l", "i", "s", "m", " ", "o", "f">>
\* "abbreviation of"
name_abbreviation_of ==
    <<"a", "b", "b", "r", "e", "v", "i", "a", "t", "i", "o", "n", " ", "o", "f">>
\* "clipping of"
name_clipping_of ==
    <<"c", "l", "i", "p", "p", "i", "n", "g", " ", "o", "f">>
\* "surname"
name_surname ==
    <<"s", "u", "r", "n", "a", "m", "e">>
\* "given name"
name_given_name ==
    <<"g", "i", "v", "e", "n", " ", "n", "a", "m", "e">>
\* "defdate"
name_defdate ==
    <<"d", "e", "f", "d", "a", "t", "e">>
\* "place"
name_place ==
    <<"p", "l", "a", "c", "e">>
\* "taxfmt"
name_taxfmt ==
    <<"t", "a", "x", "f", "m", "t">>
\* "alt sp"
name_alt_sp ==
    <<"a", "l", "t", " ", "s", "p">>

\* ---- expansion texts
\* "Alternative form of "
txt_Alternative_form_of ==
    <<"A", "l", "t", "e", "r", "n", "a", "t", "i", "v", "e", " ", "f", "o", "r", "m", " ", "o", "f", " ">>
\* "Rōmaji transcription of "
txt_Romaji_transcription_of ==
    <<"R", "o-macron", "m", "a", "j", "i", " ", "t", "r", "a", "n", "s", "c", "r", "i", "p", "t", "i", "o", "n", " ", "o", "f", " ">>
\* "Alternative case form of "
txt_Alternative_case_form_of ==
    <<"A", "l", "t", "e", "r", "n", "a", "t", "i", "v", "e", " ", "c", "a", "s", "e", " ", "f", "o", "r", "m", " ", "o", "f", " ">>
\* "Plural of "
txt_Plural_of ==
    <<"P", "l", "u", "r", "a", "l", " ", "o", "f", " ">>
\* "Inflected form of "
txt_Inflected_form_of ==
    <<"I", "n", "f", "l", "e", "c", "t", "e", "d", " ", "f", "o", "r", "m", " ", "o", "f", " ">>
\* "Synonym of "
txt_Synonym_of ==
    <<"S", "y", "n", "o", "n", "y", "m", " ", "o", "f", " ">>
\* "Acronym of "
txt_Acronym_of ==
    <<"A", "c", "r", "o", "n", "y", "m", " ", "o", "f", " ">>
\* "Initialism of "
txt_Initialism_of ==
    <<"I", "n", "i", "t", "i", "a", "l", "i", "s", "m", " ", "o", "f", " ">>
\* "Abbreviation of "
txt_Abbreviation_of ==
    <<"A", "b", "b", "r", "e", "v", "i", "a", "t", "i", "o", "n", " ", "o", "f", " ">>
\* "Clipping of "
txt_Clipping_of ==
    <<"C", "l", "i", "p", "p", "i", "n", "g", " ", "o", "f", " ">>
\* "Surname"
txt_Surname ==
    <<"S", "u", "r", "n", "a", "m", "e">>
\* "Given name"
txt_Given_name ==
    <<"G", "i", "v", "e", "n", " ", "n", "a", "m", "e">>
\* "(Place) "
txt_Place ==
    <<"(", "P", "l", "a", "c", "e", ")", " ">>
\* "Alt spelling of "
txt_Alt_spelling_of ==
    <<"A", "l", "t", " ", "s", "p", "e", "l", "l", "i", "n", "g", " ", "o", "f", " ">>

\* ------------------------------------------------------------------------
\* parse_place
\* ------------------------------------------------------------------------
\* elem.split("=").last().unwrap()
LastAfterEq(elem) ==
    LET parts == Split(elem, "=") IN parts[Len(parts)]

\* format!("(Seat {})", ...): no space before the parenthesis
seat_fragment_no_space(elem) ==
    Tail(txt_Seat) \o LastAfterEq(elem) \o <<")">>

\* format!(" (Seat {})", ...)
seat_fragment(elem) ==
    txt_Seat \o LastAfterEq(elem) \o <<")">>

\* elem.replace(prefix, "")
strip_prefix(elem, prefix) ==
    Replace(elem, prefix, <<>>)

\* format!("{}, ", ...)
comma_after(str) ==
    str \o <<",", " ">>

\* the sub-sequence without .split(" "): the whole token as its one element
one_of_unsplit(elem) ==
    <<Replace(Replace(elem, <<"<", "<">>, <<>>), <<">", ">">>, <<>>)>>

\* elem.replace("<<", "").replace(">>", "").split(" ").collect()
one_of_elems(elem) ==
    Split(Replace(Replace(elem, <<"<", "<">>, <<>>), <<">", ">">>, <<>>), " ")

\* result.trim_end().replace(",,", ",")
finish(str) ==
    Replace(TrimEnd(str), <<",", ",">>, <<",">>)

\* One call of parse_place at nesting level d (0: the outermost call).  It
\* returns the text, the deepest level reached by the calls below it, and cut:
\* the model stopped descending at MaxRecursion.
RECURSIVE parse_place_at(_, _)
parse_place_at(tokens, d) ==
    IF d >= MaxRecursion
    THEN [text |-> <<>>, deepest |-> d, cut |-> TRUE]
    ELSE
    \* the argument, evaluated once for the call
    LET call[elms \in {tokens}] ==
        LET push(str) == [text |-> str, deepest |-> d, cut |-> FALSE]
            \* the body of the for loop: what one elem appends to result
            body[elem \in {elms[i] : i \in 1..Len(elms)}] ==
                IF elem = kw_ucomm THEN push(txt_Unincorporated_Community)
                ELSE IF elem = kw_CDP \/ elem = kw_cdp THEN push(txt_Census_Designated_Place)
                ELSE IF elem = kw_minor_city THEN push(txt_Minor_City)
                ELSE IF elem = kw_electoral_division THEN push(txt_Electoral_Division)
                ELSE IF StartsWith(elem, pre_seat) THEN push(seat_fragment(elem))
                ELSE IF StartsWith(elem, pre_One_of)
                     THEN parse_place_at(one_of_elems(elem), d + 1)
                ELSE IF StartsWith(elem, pre_in) \/ elem = kw_and THEN push(elem \o <<" ">>)
                ELSE IF StartsWith(elem, pre_c) THEN push(strip_prefix(elem, pre_c))
                ELSE IF StartsWith(elem, pre_cc) THEN push(strip_prefix(elem, pre_cc))
                ELSE IF StartsWith(elem, pre_s)
                     THEN push(comma_after(strip_prefix(elem, pre_s)))
                ELSE IF StartsWith(elem, pre_co)
                     THEN push(comma_after(strip_prefix(elem, pre_co)))
                ELSE IF StartsWith(elem, pre_state) THEN
                    push(comma_after(make_ascii_titlecase(strip_prefix(elem, pre_state))))
                ELSE IF StartsWith(elem, pre_city) THEN
                    push(comma_after(make_ascii_titlecase(strip_prefix(elem, pre_city))))
                ELSE IF StartsWith(elem, pre_town) THEN
                    push(comma_after(make_ascii_titlecase(strip_prefix(elem, pre_town))))
                ELSE IF StartsWith(elem, pre_prefecture) THEN
                    push(make_ascii_titlecase(
                             Replace(strip_prefix(elem, pre_prefecture), pre_Suf, <<>>))
                         \o txt_prefecture)
                ELSE IF StartsWith(elem, pre_ar) THEN
                    push(make_ascii_titlecase(
                             Replace(strip_prefix(elem, pre_ar), pre_Suf, <<>>))
                         \o txt_Autonomous_Region)
                ELSE push(elem \o <<" ">>)
            \* result after the elems from index i on were appended, in order
            appended[i \in 1..(Len(elms) + 1)] ==
                IF i > Len(elms) THEN <<>> ELSE body[elms[i]].text \o appended[i + 1]
        IN  [text    |-> finish(appended[1]),
             deepest |-> IF \E i \in 1..Len(elms) : body[elms[i]].deepest > d
                         THEN CHOOSE m \in (d + 1)..MaxRecursion :
                                  /\ \E i \in 1..Len(elms) : body[elms[i]].deepest = m
                                  /\ \A i \in 1..Len(elms) : body[elms[i]].deepest <= m
                         ELSE d,
             cut     |-> \E i \in 1..Len(elms) : body[elms[i]].cut]
    IN  call[tokens]

parse_place(tokens) ==
    parse_place_at(tokens, 0).text

\* ------------------------------------------------------------------------
\* replace_template
\* ------------------------------------------------------------------------
\* a dispatch that returned text
Ok(text) ==
    [ok |-> TRUE, text |-> text]

\* a dispatch that indexed elems past its end: the thread panics
Panic ==
    [ok |-> FALSE, text |-> <<>>]

\* elems[from..]: the slice from index `from` (0-based) to the end
SliceFrom(args, from) ==
    SubSeq(args, from + 1, Len(args))

\* .filter(|e| **e != "_")
RECURSIVE FilterUnderscore(_)
FilterUnderscore(args) ==
    IF Len(args) = 0 THEN <<>>
    ELSE IF Head(args) = <<"_">> THEN FilterUnderscore(Tail(args))
    ELSE <<Head(args)>> \o FilterUnderscore(Tail(args))

\* format!("{{{}}}", ...): braces in place of parentheses
fmt_brace(str) ==
    <<"{">> \o str \o <<"}">>

\* format!("({})", ...)
fmt_paren(str) ==
    <<"(">> \o str \o <<")">>

\* the last arm returning capture group 1 in place of group 0
passthrough_group1(caps) ==
    caps.text

\* the last arm: caps.get(0).unwrap().as_str().to_owned()
passthrough(caps) ==
    caps.whole

\* caps: [whole |-> the matched span, text |-> capture group 1]
replace_template(caps) ==
    \* s.split('|').collect(), bound once for the arms
    LET arms[args \in {Split(caps.text, "|")}] ==
    LET name == args[1]
        n    == Len(args)
        \* elems[k], 0-based
        at(k) == args[k + 1]
        second(prefix) == IF n > 2 THEN Ok(prefix \o at(2)) ELSE Panic
    IN  CASE name = name_comma -> Ok(<<",">>)
          [] name \in {name_1, name_cap} ->
                IF n > 1 THEN Ok(make_ascii_titlecase(at(1))) ELSE Panic
          [] name \in {name_ngd, name_unsupported, name_non_gloss_definition, name_gloss} ->
                IF n > 1 THEN Ok(at(1)) ELSE Panic
          [] name = name_alternative_form_of -> second(txt_Alternative_form_of)
          [] name = name_alt_form -> second(txt_Alternative_form_of)
          [] name = name_ja_romanization_of ->
                IF n > 1 THEN Ok(txt_Romaji_transcription_of \o at(1)) ELSE Panic
          [] name = name_sumti ->
                IF n > 1 THEN Ok(<<"x">> \o at(1)) ELSE Panic
          [] name = name_ja_def ->
                IF n > 1 THEN Ok(at(1) \o <<":">>) ELSE Panic
          [] name = name_qualifier ->
                IF n > 1 THEN Ok(fmt_paren(at(1))) ELSE Panic
          [] name = name_lb ->
                IF n >= 2
                THEN Ok(fmt_paren(Join(FilterUnderscore(SliceFrom(args, 2)), <<",", " ">>)))
                ELSE Panic
          [] name = name_q ->
                IF n > 1 THEN Ok(fmt_paren(at(1))) ELSE Panic
          [] name \in {name_c, name_m, name_l, name_w} ->
                IF n > 2 THEN Ok(at(2)) ELSE Panic
          [] name = name_senseid -> Ok(<<>>)
          [] name = name_alternative_case_form_of -> second(txt_Alternative_case_form_of)
          [] name = name_plural_of -> second(txt_Plural_of)
          [] name = name_infl_of -> second(txt_Inflected_form_of)
          [] name \in {name_syn_of, name_synonym_of} -> second(txt_Synonym_of)
          [] name = name_acronym_of -> second(txt_Acronym_of)
          [] name = name_initialism_of -> second(txt_Initialism_of)
          [] name = name_abbreviation_of -> second(txt_Abbreviation_of)
          [] name = name_clipping_of -> second(txt_Clipping_of)
          [] name = name_surname -> Ok(txt_Surname)
          [] name = name_given_name -> Ok(txt_Given_name)
          [] name = name_defdate ->
                IF n > 1 THEN Ok(<<"[">> \o at(1) \o <<"]">>) ELSE Panic
          [] name = name_place ->
                IF n >= 2 THEN Ok(txt_Place \o parse_place(SliceFrom(args, 2))) ELSE Panic
          [] name = name_taxfmt ->
                \* elems[1..elems.len() - 1]: the range needs 1 <= len - 1
                IF n >= 2 THEN Ok(Join(SubSeq(args, 2, n - 1), <<" ">>)) ELSE Panic
          [] name = name_alt_sp ->
                IF n > 3
                THEN LET placed == [args EXCEPT ![4] = Replace(at(3), pre_t, <<>>)]
                     IN  Ok(txt_Alt_spelling_of \o at(2) \o <<" ">>
                            \o parse_place(SliceFrom(placed, 3)))
                ELSE Panic
          [] OTHER -> Ok(passthrough(caps))
    IN  arms[Split(caps.text, "|")]

\* ------------------------------------------------------------------------
\* re_template and Regex::replace_all
\* ------------------------------------------------------------------------
\* the character class [^\{\}]: the content may hold no brace at all
content_char_no_brace(c) ==
    c # "{" /\ c # "}"

\* the character class of the capture group: [^\{], with (?s) any other character
content_char(c) ==
    c # "{"

\* re_template matched at index i: the index of the match's last character, else
\* 0.  After "{{" the lazy group ([^\{])*? takes content characters up to the
\* first "}}"; a character outside the class before it ends the attempt.
match_end(str, i) ==
    IF i + 3 <= Len(str) /\ str[i] = "{" /\ str[i + 1] = "{"
    THEN LET close[j \in (i + 2)..(Len(str) + 1)] ==
                 IF j + 1 > Len(str) THEN 0
                 ELSE IF str[j] = "}" /\ str[j + 1] = "}" THEN j + 1
                 ELSE IF content_char(str[j]) THEN close[j + 1]
                 ELSE 0
         IN  close[i + 2]
    ELSE 0

\* Regex::find_iter: the leftmost non-overlapping matches, as [from, to] index pairs
find_iter(str) ==
    LET scan[i \in 1..(Len(str) + 1)] ==
            IF i > Len(str) THEN <<>>
            ELSE IF match_end(str, i) = 0 THEN scan[i + 1]
            ELSE <<[from |-> i, to |-> match_end(str, i)]>> \o scan[match_end(str, i) + 1]
    IN  scan[1]

\* the Captures of a match: group 0 and the group named text
captures(str, m) ==
    [whole |-> SubSeq(str, m.from, m.to), text |-> SubSeq(str, m.from + 2, m.to - 2)]

\* Regex::replace_all with the replacer closure: each match replaced by
\* replace_template's text and the text between the matches copied; a panic of
\* the replacer ends the call.
replace_all(str) ==
    \* the matches, found once for the whole call
    LET over[found \in {find_iter(str)}] ==
        \* the output from match k on, the text after the last match included
        LET build[k \in 1..(Len(found) + 1)] ==
                IF k > Len(found)
                THEN SubSeq(str, IF k = 1 THEN 1 ELSE found[k - 1].to + 1, Len(str))
                ELSE SubSeq(str, IF k = 1 THEN 1 ELSE found[k - 1].to + 1,
                            found[k].from - 1)
                     \o replace_template(captures(str, found[k])).text
                     \o build[k + 1]
        IN  IF \E k \in 1..Len(found) : ~replace_template(captures(str, found[k])).ok
            THEN Panic
            ELSE Ok(build[1])
    IN  over[find_iter(str)]

\* ------------------------------------------------------------------------
\* The definition texts the closure is called on
\* ------------------------------------------------------------------------
\* the sequences over S of length 0 .. n
SeqsUpTo(S, n) ==
    UNION {[1..k -> S] : k \in 0..n}

\* the text of an invocation: {{name|arg|...}}
Tmpl(name, args) ==
    <<"{", "{">> \o Join(<<name>> \o args, <<"|">>) \o <<"}", "}">>

\* every name replace_template has an arm for
RecognizedNames ==
    {name_comma, name_1, name_cap, name_ngd, name_unsupported,
     name_non_gloss_definition, name_gloss, name_alternative_form_of, name_alt_form,
     name_ja_romanization_of, name_sumti, name_ja_def, name_qualifier, name_lb,
     name_q, name_c, name_m, name_l, name_w, name_senseid,
     name_alternative_case_form_of, name_plural_of, name_infl_of, name_syn_of,
     name_synonym_of, name_acronym_of, name_initialism_of, name_abbreviation_of,
     name_clipping_of, name_surname, name_given_name, name_defdate, name_place,
     name_taxfmt, name_alt_sp}

\* names without an arm: "foo", "Q", "q " and the empty name
UnrecognizedNames ==
    {<<"f", "o", "o">>, <<"Q">>, <<"q", " ">>, <<>>}

\* "x", "_"
FlatArgs ==
    {<<"x">>, <<"_">>}

\* one invocation of every name with 0 .. MaxArgs arguments
FlatInputs ==
    {Tmpl(name, args) : name \in RecognizedNames \cup UnrecognizedNames,
                        args \in SeqsUpTo(FlatArgs, MaxArgs)}

\* the names of the nested invocations
NestNames ==
    {name_q, name_plural_of, name_lb, name_senseid}

\* An invocation around `inner`: inner is the first argument, or the second
\* after the argument "en".
Around(name, inner, lead) ==
    Tmpl(name, (IF lead THEN <<<<"e", "n">>>> ELSE <<>>) \o <<inner>>)

\* Chains[d]: invocations nested to depth d whose names are in `names`
ChainsOf(names) ==
    LET step(inners) == {Around(name, inner, lead) :
                             name \in names, inner \in inners, lead \in BOOLEAN}
        RECURSIVE chain(_)
        chain(d) == IF d = 0 THEN {<<"x">>} ELSE step(chain(d - 1))
    IN  [d \in 1..MaxDepth |-> chain(d)]

\* chains of recognized names only
RecognizedChains ==
    ChainsOf(NestNames)

\* chains in which a level may also be the unrecognized "foo"
MixedChains ==
    ChainsOf(NestNames \cup {<<"f", "o", "o">>})

NestedInputs ==
    UNION {MixedChains[d] : d \in 1..MaxDepth}

\* One invocation of "q" or "foo" whose argument holds single braces, between
\* texts that put single braces and further spans next to its delimiters.
\* the arguments:
\*   "x"
\*   "a}b"
\*   "a{b"
\*   "}"
\*   "{"
BraceArgs ==
    {
        <<"x">>,
        <<"a", "}", "b">>,
        <<"a", "{", "b">>,
        <<"}">>,
        <<"{">>
    }

\* the texts before:
\*   ""
\*   "{"
\*   "}"
\*   "{{senseid}}"
BracePre ==
    {
        <<>>,
        <<"{">>,
        <<"}">>,
        <<"{", "{", "s", "e", "n", "s", "e", "i", "d", "}", "}">>
    }

\* the texts after:
\*   ""
\*   "}"
\*   "{"
\*   "{{q|x}}"
BracePost ==
    {
        <<>>,
        <<"}">>,
        <<"{">>,
        <<"{", "{", "q", "|", "x", "}", "}">>
    }

BraceInputs ==
    {pre \o Tmpl(name, <<arg>>) \o post :
         name \in {name_q, <<"f", "o", "o">>}, arg \in BraceArgs, pre \in BracePre, post \in BracePost}

\* texts without a span, and the invocations of the documentation:
\*   ""
\*   "A (dated) cat"
\*   "a{b}c"
\*   "A {{qualifier|dated}} {{plural of|en|cat}}"
\*   "{{alt sp|en|x|t=s/A}}"
\*   "{{place|en|state/california|seat=Sacramento}}"
PlainInputs ==
    {
        <<>>,
        <<"A", " ", "(", "d", "a", "t", "e", "d", ")", " ", "c", "a", "t">>,
        <<"a", "{", "b", "}", "c">>,
        <<"A", " ", "{", "{", "q", "u", "a", "l", "i", "f", "i", "e", "r", "|", "d", "a", "t", "e", "d", "}", "}", " ", "{", "{", "p", "l", "u", "r", "a", "l", " ", "o", "f", "|", "e", "n", "|", "c", "a", "t", "}", "}">>,
        <<"{", "{", "a", "l", "t", " ", "s", "p", "|", "e", "n", "|", "x", "|", "t", "=", "s", "/", "A", "}", "}">>,
        <<"{", "{", "p", "l", "a", "c", "e", "|", "e", "n", "|", "s", "t", "a", "t", "e", "/", "c", "a", "l", "i", "f", "o", "r", "n", "i", "a", "|", "s", "e", "a", "t", "=", "S", "a", "c", "r", "a", "m", "e", "n", "t", "o", "}", "}">>
    }

Inputs ==
    FlatInputs \cup NestedInputs \cup BraceInputs \cup PlainInputs

\* the place tokens the model draws from:
\*   "state/california"
\*   "seat=Sacramento"
\*   "seat=a=b"
\*   "state/a,"
\*   "c/xc/y"
\*   "cc/xcc/y"
\*   "s/xs/y"
\*   "co/xco/y"
\*   "state/xstate/y"
\*   "city/xcity/y"
\*   "town/xtown/y"
\*   "s/Paris/x"
\*   "c/Paris"
\*   "town/paris"
\*   "One of <<s/A>> <<c/B>>"
\*   "One of <<One of>> x"
\*   "ucomm"
\*   "cdp"
\*   "minor city"
\*   "in Texas"
\*   "and"
\*   "prefecture:aSuf/b"
\*   "ar:x"
\*   "Texas"
\*   ""
\*   "state/ōx"
PlaceTokens ==
    {
        <<"s", "t", "a", "t", "e", "/", "c", "a", "l", "i", "f", "o", "r", "n", "i", "a">>,
        <<"s", "e", "a", "t", "=", "S", "a", "c", "r", "a", "m", "e", "n", "t", "o">>,
        <<"s", "e", "a", "t", "=", "a", "=", "b">>,
        <<"s", "t", "a", "t", "e", "/", "a", ",">>,
        <<"c", "/", "x", "c", "/", "y">>,
        <<"c", "c", "/", "x", "c", "c", "/", "y">>,
        <<"s", "/", "x", "s", "/", "y">>,
        <<"c", "o", "/", "x", "c", "o", "/", "y">>,
        <<"s", "t", "a", "t", "e", "/", "x", "s", "t", "a", "t", "e", "/", "y">>,
        <<"c", "i", "t", "y", "/", "x", "c", "i", "t", "y", "/", "y">>,
        <<"t", "o", "w", "n", "/", "x", "t", "o", "w", "n", "/", "y">>,
        <<"s", "/", "P", "a", "r", "i", "s", "/", "x">>,
        <<"c", "/", "P", "a", "r", "i", "s">>,
        <<"t", "o", "w", "n", "/", "p", "a", "r", "i", "s">>,
        <<"O", "n", "e", " ", "o", "f", " ", "<", "<", "s", "/", "A", ">", ">", " ", "<", "<", "c", "/", "B", ">", ">">>,
        <<"O", "n", "e", " ", "o", "f", " ", "<", "<", "O", "n", "e", " ", "o", "f", ">", ">", " ", "x">>,
        <<"u", "c", "o", "m", "m">>,
        <<"c", "d", "p">>,
        <<"m", "i", "n", "o", "r", " ", "c", "i", "t", "y">>,
        <<"i", "n", " ", "T", "e", "x", "a", "s">>,
        <<"a", "n", "d">>,
        <<"p", "r", "e", "f", "e", "c", "t", "u", "r", "e", ":", "a", "S", "u", "f", "/", "b">>,
        <<"a", "r", ":", "x">>,
        <<"T", "e", "x", "a", "s">>,
        <<>>,
        <<"s", "t", "a", "t", "e", "/", "o-macron", "x">>
    }

PlaceInputs ==
    SeqsUpTo(PlaceTokens, MaxTokens)


\* ------------------------------------------------------------------------
\* The formatting closure of main and its expansion loop
\* ------------------------------------------------------------------------
\* a comparison that never holds
never_same(a, b) ==
    FALSE

\* result == result_
same_string(a, b) ==
    a = b

\* one pass and no loop: result = result_; break;
single_pass(res, res_) ==
    [pc |-> "done", result |-> res_]

\* if result == result_ { break; } result = result_;
loop_step(res, res_) ==
    IF same_string(res, res_)
    THEN [pc |-> "done", result |-> res]
    ELSE [pc |-> "loop", result |-> res_]

place_idle ==
    /\ elems = <<>>
    /\ place = <<>>
    /\ depth = 0
    /\ ppc = "idle"

\* print_words calls the closure on a definition: result = s.to_owned()
Init ==
    /\ raw \in BOOLEAN
    /\ s \in Inputs
    /\ result = s
    /\ pc = "loop"
    /\ passes = 0
    /\ changes = 0
    /\ calls = 1
    /\ place_idle

\* one iteration of the loop
Pass ==
    /\ pc = "loop"
    /\ ~raw
    /\ passes < MaxPasses
    /\ \E result_ \in {replace_all(result)} :
         /\ passes' = passes + 1
         /\ IF ~result_.ok
            THEN pc' = "panic" /\ UNCHANGED <<result, changes>>
            ELSE \E to \in {loop_step(result, result_.text)} :
                   /\ pc' = to.pc
                   /\ result' = to.result
                   /\ changes' = IF to.result = result THEN changes ELSE changes + 1
    /\ UNCHANGED <<raw, s, calls, elems, place, depth, ppc>>

\* matches.opt_present("r"): the loop is skipped
RawReturn ==
    /\ pc = "loop"
    /\ raw
    /\ pc' = "done"
    /\ UNCHANGED <<raw, s, result, passes, changes, calls, elems, place, depth, ppc>>

\* print_words calls the closure again, on the text the last call returned
Call ==
    /\ pc = "done"
    /\ calls < MaxCalls
    /\ s' = result
    /\ result' = result
    /\ pc' = "loop"
    /\ passes' = 0
    /\ changes' = 0
    /\ calls' = calls + 1
    /\ UNCHANGED <<raw, elems, place, depth, ppc>>

Next ==
    \/ Pass
    \/ RawReturn
    \/ Call

Spec ==
    Init /\ [][Next]_vars

\* the loop is sequential code: an enabled iteration is taken
FairSpec ==
    Spec /\ WF_vars(Pass) /\ WF_vars(RawReturn)

\* ------------------------------------------------------------------------
\* parse_place called on its own
\* ------------------------------------------------------------------------
PlaceInit ==
    /\ elems \in PlaceInputs
    /\ place = <<>>
    /\ depth = 0
    /\ ppc = "call"
    /\ raw = FALSE
    /\ s = <<>>
    /\ result = <<>>
    /\ pc = "idle"
    /\ passes = 0
    /\ changes = 0
    /\ calls = 0

ParsePlace ==
    /\ ppc = "call"
    /\ LET r == parse_place_at(elems, 0) IN
       /\ place' = r.text
       /\ depth' = r.deepest
       /\ ppc' = IF r.cut THEN "cut" ELSE "ret"
    /\ UNCHANGED <<raw, s, result, pc, passes, changes, calls, elems>>

PlaceNext ==
    ParsePlace

PlaceSpec ==
    PlaceInit /\ [][PlaceNext]_vars

\* ------------------------------------------------------------------------
\* Properties
\* ------------------------------------------------------------------------
\* the number of "{" in a string
RECURSIVE NumOpen(_)
NumOpen(str) ==
    IF Len(str) = 0 THEN 0
    ELSE (IF Head(str) = "{" THEN 1 ELSE 0) + NumOpen(Tail(str))

\* pat occurs somewhere in str
Contains(str, pat) ==
    \E i \in 1..Len(str) : MatchAt(str, pat, i)

\* the captures of a text that is one span: group 0 the text, group 1 its content
CapsOf(span) ==
    [whole |-> span, text |-> SubSeq(span, 3, Len(span) - 2)]

\* the name of an invocation: its content up to the first "|"
NameOf(content) ==
    Split(content, "|")[1]

\* the closure's first call, with expansion enabled
FirstCall ==
    calls = 1 /\ ~raw /\ pc # "idle"

\* the generated invocations of a recognized name
RecognizedFlat ==
    {Tmpl(name, args) : name \in RecognizedNames, args \in SeqsUpTo(FlatArgs, MaxArgs)}

\* the generated invocations of an unrecognized name
UnrecognizedFlat ==
    {Tmpl(name, args) : name \in UnrecognizedNames, args \in SeqsUpTo(FlatArgs, MaxArgs)}

\* C1 (as claimed): an invocation of a recognized name whose argument list is too
\* short for the positions its arm reads is returned as the unchanged span, and
\* the program does not abort: the first pass leaves the text as it was and the
\* loop ends.
C1_ShortArgsPassThrough ==
    (FirstCall /\ passes >= 1 /\ s \in RecognizedFlat /\ ~replace_template(CapsOf(s)).ok)
        => (pc = "done" /\ result = s)

\* C6: an invocation whose name has no arm is returned character for character,
\* delimiters and arguments included, whatever the number of its arguments: the
\* dispatcher's text is the span, and the first pass ends the loop with the text
\* unchanged.
C6_UnrecognizedPassThrough ==
    (FirstCall /\ s \in UnrecognizedFlat)
        => /\ replace_template(CapsOf(s)) = Ok(s)
           /\ passes >= 1 => (pc = "done" /\ result = s /\ changes = 0 /\ passes = 1)

\* C6 happens: "{{foo|x|_|x}}" went through a pass
C6_Witness ==
    /\ FirstCall
    /\ pc = "done"
    /\ s = Tmpl(<<"f", "o", "o">>, << <<"x">>, <<"_">>, <<"x">> >>)
    /\ result = s

\* C2: the loop performs finitely many passes and then stops: a call that is in
\* the loop leaves it (with a pass whose output equals its input, or with the
\* panic of a dispatch); a pass that stays in the loop changed the text and a
\* pass that ends it did not.
C2_LoopTerminates ==
    /\ [](pc = "loop" => <>(pc \in {"done", "panic"}))
    /\ [][(pc = "loop" /\ ~raw /\ pc' = "loop") => result' # result]_vars
    /\ [][(pc = "loop" /\ ~raw /\ pc' = "done")
             => (result' = result /\ replace_all(result) = Ok(result))]_vars

\* C2 happens: a call stopped after three passes, two of which changed the text
C2_Witness ==
    FirstCall /\ pc = "done" /\ passes = 3 /\ changes = 2

\* C5: the closure's result is a fixed point: called again on the text it
\* returned, it returns that text unchanged, in one pass; a text without "{{" is
\* returned unchanged by any call.
C5_FixedPoint ==
    /\ (calls >= 2 /\ pc # "loop")
           => (pc = "done" /\ result = s /\ changes = 0)
    /\ (pc \notin {"loop", "idle"} /\ ~Contains(s, <<"{", "{">>))
           => (pc = "done" /\ result = s)

\* C5 happens: the second call returned, on the result of a first call that had
\* changed its text
C5_Witness ==
    /\ calls = 2 /\ ~raw /\ pc = "done" /\ passes = 1
    /\ s = <<"(", "(", "x", ")", ")">>

\* C9: a pass never raises the number of "{" in the working string, a pass that
\* changes the string lowers it by at least 2, and a call on a text with n "{"
\* performs at most n \div 2 + 1 passes.
C9_OpenBracesDecrease ==
    /\ [][(pc = "loop" /\ calls' = calls)
             => /\ NumOpen(result') <= NumOpen(result)
                /\ result' # result => NumOpen(result') + 2 <= NumOpen(result)]_vars
    /\ [](pc # "idle" => passes <= NumOpen(s) \div 2 + 1)

\* C9 happens: a text with four "{" took three passes
C9_Witness ==
    FirstCall /\ pc = "done" /\ NumOpen(s) = 4 /\ passes = 3 /\ NumOpen(result) = 0

\* str[i .. j + 1] is a span "{{content}}" whose name has an arm and whose
\* arguments reach every position that arm reads
ResolvableSpan(str, i, j) ==
    /\ i + 1 < j
    /\ j + 1 <= Len(str)
    /\ str[i] = "{" /\ str[i + 1] = "{"
    /\ str[j] = "}" /\ str[j + 1] = "}"
    /\ NameOf(SubSeq(str, i + 2, j - 1)) \in RecognizedNames
    /\ replace_template(CapsOf(SubSeq(str, i, j + 1))).ok

\* the content of the span str[i .. j + 1]
ContentOf(str, i, j) ==
    SubSeq(str, i + 2, j - 1)

C4_OneLayerPerPass ==
    \A d \in 2..MaxDepth :
        (FirstCall /\ s \in RecognizedChains[d])
            => /\ pc # "panic"
               /\ changes <= d
               /\ NumOpen(result) = 2 * (d - changes)
               /\ pc = "done" => (changes = d /\ passes = d + 1)

\* C4, for the calls in which no dispatch fails: the chain loses one layer, two
\* "{", with each changing pass, and the loop ends after d changing passes and
\* one unchanged pass.
C4_OneLayerPerPassUnlessPanic ==
    \A d \in 2..MaxDepth :
        (FirstCall /\ s \in RecognizedChains[d] /\ pc # "panic")
            => /\ changes <= d
               /\ NumOpen(result) = 2 * (d - changes)
               /\ pc = "done" => (changes = d /\ passes = d + 1)

\* the token without its first n characters
Remainder(elem, n) ==
    SubSeq(elem, n + 1, Len(elem))

\* the call under study is parse_place(<<"state/" \o x, "seat=" \o y>>)
StateThenSeat ==
    /\ Len(elems) = 2
    /\ StartsWith(elems[1], pre_state)
    /\ StartsWith(elems[2], pre_seat)

\* C7 (as claimed): for a "state/<x>" token followed by a "seat=<y>" token,
\* parse_place returns "<X>, (Seat <y>)", <X> being <x> with its first ASCII
\* character upper-cased, with one space between the comma and the parenthesis.
C7_StateSeatOneSpace ==
    (ppc = "ret" /\ StateThenSeat)
        => place = make_ascii_titlecase(Remainder(elems[1], Len(pre_state)))
                   \o <<",", " ", "(", "S", "e", "a", "t", " ">>
                   \o Remainder(elems[2], Len(pre_seat)) \o <<")">>

\* C7 (amended): for a "state/<x>" token followed by a "seat=<y>" token, <x>
\* holding no "," and no further "state/" and <y> no "=" and no ",,",
\* parse_place returns "<X>,  (Seat <y>)": two spaces stand between the comma
\* and the parenthesis, the one that follows the state and the one that leads
\* the seat.
C7_StateSeatTwoSpaces ==
    (/\ ppc = "ret"
     /\ StateThenSeat
     /\ ~Contains(Remainder(elems[1], Len(pre_state)), <<",">>)
     /\ ~Contains(Remainder(elems[1], Len(pre_state)), pre_state)
     /\ ~Contains(Remainder(elems[2], Len(pre_seat)), <<"=">>)
     /\ ~Contains(Remainder(elems[2], Len(pre_seat)), <<",", ",">>))
        => place = make_ascii_titlecase(Remainder(elems[1], Len(pre_state)))
                   \o <<",", " ", " ", "(", "S", "e", "a", "t", " ">>
                   \o Remainder(elems[2], Len(pre_seat)) \o <<")">>

\* C7 happens: parse_place(<<"state/california", "seat=Sacramento">>) returned
\* "California,  (Seat Sacramento)"
C7_Witness ==
    /\ ppc = "ret"
    /\ elems = <<pre_state \o <<"c", "a", "l", "i", "f", "o", "r", "n", "i", "a">>,
                 pre_seat \o <<"S", "a", "c", "r", "a", "m", "e", "n", "t", "o">> >>
    /\ place = <<"C", "a", "l", "i", "f", "o", "r", "n", "i", "a", ",", " ", " ", "(",
                 "S", "e", "a", "t", " ",
                 "S", "a", "c", "r", "a", "m", "e", "n", "t", "o", ")">>

\* what the claim has a token with prefix `prefix` contribute: the whole
\* remainder, title-cased for state/, city/ and town/, and ", " after it for all
\* but c/ and cc/
ClaimedContribution(elem, prefix) ==
    IF prefix \in {pre_c, pre_cc} THEN Remainder(elem, Len(prefix))
    ELSE IF prefix \in {pre_s, pre_co} THEN Remainder(elem, Len(prefix)) \o <<",", " ">>
    ELSE make_ascii_titlecase(Remainder(elem, Len(prefix))) \o <<",", " ">>

\* C8 (as claimed): from a token that starts with c/, cc/, s/, co/, state/,
\* city/ or town/ parse_place removes only that leading prefix and emits the
\* whole remainder, also when the remainder holds the prefix text again.
C8_OnlyLeadingPrefixRemoved ==
    \A prefix \in {pre_c, pre_cc, pre_s, pre_co, pre_state, pre_city, pre_town} :
        (ppc = "ret" /\ Len(elems) = 1 /\ StartsWith(elems[1], prefix))
            => place = finish(ClaimedContribution(elems[1], prefix))

\* C10: the parse_place call made for a token that starts with "One of" makes no
\* further call: every call returns, and the calls nest at most one deep.
C10_OneNestedCall ==
    ppc # "call" => (ppc = "ret" /\ depth <= 1)

\* C10 happens: a token "One of <<One of>> x" was parsed with one nested call
C10_Witness ==
    /\ ppc = "ret"
    /\ depth = 1
    /\ \E i \in 1..Len(elems) :
           elems[i] = <<"O", "n", "e", " ", "o", "f", " ", "<", "<", "O", "n", "e", " ",
                        "o", "f", ">", ">", " ", "x">>

====
